---- MODULE Spec2Model ----
(***************************************************************************)
(* trio_binning: the fastx reader (seq.py: Read, readfq) and the k-mer     *)
(* classification run (classify_by_kmers.py: open_outfiles,                *)
(* calculate_scaling_factors, main).                                       *)
(*                                                                         *)
(* Python strings are sequences of one-character strings.  A file is the   *)
(* sequence of lines that iterating over it gives: every line keeps its    *)
(* terminator "\n", except that the last line of a file has none when the  *)
(* file does not end with one.  An Optional[str] is a record               *)
(* [none, s]: None is [none |-> TRUE, s |-> <<>>].                         *)
(***************************************************************************)
EXTENDS Integers, Sequences, FiniteSets, TLC

VARIABLES
    fp,        \* the input file: the lines its iteration yields
    idx,       \* number of lines of fp consumed so far (the file position)
    last,      \* readfq: the buffer keeping the last unprocessed line
    gen,       \* readfq: where the generator is suspended
    parsed,    \* the Reads yielded so far, in order
    pc,        \* the position of the program that drives the reader
    orig,      \* round trip: the Reads to print
    sio,       \* round trip: the text printed so far
    num_kmers,        \* main: the cardinalities of the two k-mer sets
    gzip_output,      \* main: not args.no_gzip_output
    scaling_factor,   \* main: scaling_factor_a, scaling_factor_b
    read,             \* main: the loop variable, <<>> before the first Read
    score,            \* main: hap_a_score, hap_b_score, read_bin of the body
    counted,          \* the raw counts count_kmers_in_read returned, in order
    binned,           \* the read_bin given to each Read, in order
    outfile,          \* main: the three output streams
    files,            \* the file system: file name -> content
    stdout            \* the report lines printed, in order

parserVars == <<fp, idx, last, gen, parsed>>
tripVars == <<orig, sio>>
runVars == <<num_kmers, gzip_output, scaling_factor, read, score, counted,
             binned, outfile, files, stdout>>

vars == <<fp, idx, last, gen, parsed, pc, orig, sio, num_kmers, gzip_output,
          scaling_factor, read, score, counted, binned, outfile, files,
          stdout>>

(***************************************************************************)
(* Bounds of the model.                                                    *)
(***************************************************************************)
MaxLines == 4      \* lines of a parsed file
MaxLineLen == 2    \* characters of a line, its terminator not counted
MaxTrip == 2       \* Reads printed in a round trip
MaxSeqLen == 2     \* length of the seq of a printed Read
MaxReads == 2      \* records of the file a classification run is given
MaxKmers == 3      \* cardinality of a k-mer set
MaxCount == 2      \* k-mers of one set found in one read
MaxMlen == 2       \* match length of an alignment
MaxRecords == 2    \* records of a file of well-formed records
MaxHeaderLen == 3  \* characters of a header line, its marker counted

NL == "\n"
\* readfq looks at the first character of a line only: the rest of a line
\* is payload.
FirstChars == {">", "@", "+", "A"}
RestChars == {"A"}

(***************************************************************************)
(* Python values and string operations.                                    *)
(***************************************************************************)
NoneVal == [none |-> TRUE, s |-> <<>>]
Some(s) == [none |-> FALSE, s |-> s]

\* Python truthiness of an Optional[str]: None and "" are both false.
Truthy(o) == ~o.none /\ o.s # <<>>

\* line[:-1]
DropLast(line) == SubSeq(line, 1, Len(line) - 1)

\* s.partition(" ")[0]: the part of s before the first space, or all of s.
RECURSIVE PartitionHead(_)
PartitionHead(s) ==
    IF s = <<>> \/ Head(s) = " " THEN <<>>
    ELSE <<Head(s)>> \o PartitionHead(Tail(s))

\* "".join(seqs)
RECURSIVE Join(_)
Join(seqs) == IF seqs = <<>> THEN <<>> ELSE Head(seqs) \o Join(Tail(seqs))

Read(name, seq, qual) == [name |-> name, seq |-> seq, qual |-> qual]

(***************************************************************************)
(* readfq.  Each loop over fp is an operator from the file position at     *)
(* which the loop starts to the position and the values it leaves.         *)
(***************************************************************************)

\* lines 55-58: search for the start of the next record.
RECURSIVE SeekHeader(_, _, _)
SeekHeader(f, i, l) ==
    IF i >= Len(f) THEN [idx |-> i, last |-> l]
    ELSE LET line == f[i + 1] IN
         IF line[1] \in {">", "@"}
         THEN [idx |-> i + 1, last |-> Some(DropLast(line))]
         ELSE SeekHeader(f, i + 1, l)

\* lines 62-66: read the sequence.
RECURSIVE ReadSeqs(_, _, _)
ReadSeqs(f, i, seqs) ==
    IF i >= Len(f) THEN [idx |-> i, last |-> NoneVal, seqs |-> seqs]
    ELSE LET line == f[i + 1] IN
         IF line[1] \in {"@", "+", ">"}
         THEN [idx |-> i + 1, last |-> Some(DropLast(line)), seqs |-> seqs]
         ELSE ReadSeqs(f, i + 1, Append(seqs, DropLast(line)))

\* ReadQual with the quality read so far taken as enough when the file ends.
RECURSIVE ReadQualPartial(_, _, _, _, _)
ReadQualPartial(f, i, seqs, leng, seqlen) ==
    IF i >= Len(f) THEN [idx |-> i, enough |-> TRUE, seqs |-> seqs]
    ELSE LET line == f[i + 1]
             seqs2 == Append(seqs, DropLast(line))
             leng2 == leng + Len(line) - 1
         IN  IF leng2 >= seqlen
             THEN [idx |-> i + 1, enough |-> TRUE, seqs |-> seqs2]
             ELSE ReadQualPartial(f, i + 1, seqs2, leng2, seqlen)

\* lines 73-80: read the quality; enough is TRUE when the loop ends at the
\* yield of line 78, FALSE when it ends with the file.
RECURSIVE ReadQual(_, _, _, _, _)
ReadQual(f, i, seqs, leng, seqlen) ==
    IF i >= Len(f) THEN [idx |-> i, enough |-> FALSE, seqs |-> seqs]
    ELSE LET line == f[i + 1]
             seqs2 == Append(seqs, DropLast(line))
             leng2 == leng + Len(line) - 1
         IN  IF leng2 >= seqlen
             THEN [idx |-> i + 1, enough |-> TRUE, seqs |-> seqs2]
             ELSE ReadQual(f, i + 1, seqs2, leng2, seqlen)

\* lines 53-83: one pass of the while loop from its top, up to the next
\* yield or to the end of the generator.
LoopBody(f, i, l) ==
    LET h == IF ~Truthy(l) THEN SeekHeader(f, i, l) ELSE [idx |-> i, last |-> l]
    IN  IF ~Truthy(h.last)
        THEN [gen |-> "done", idx |-> h.idx, last |-> h.last, out |-> <<>>]
        ELSE
          LET name == PartitionHead(Tail(h.last.s))
              s == ReadSeqs(f, h.idx, <<>>)
          IN  IF ~Truthy(s.last) \/ s.last.s[1] # "+"
              THEN [gen |-> "y68", idx |-> s.idx, last |-> s.last,
                    out |-> <<Read(name, Join(s.seqs), NoneVal)>>]
              ELSE
                LET seq == Join(s.seqs)
                    q == ReadQual(f, s.idx, <<>>, 0, Len(seq))
                IN  IF q.enough
                    THEN [gen |-> "y78", idx |-> q.idx, last |-> NoneVal,
                          out |-> <<Read(name, seq, Some(Join(q.seqs)))>>]
                    ELSE [gen |-> "y82", idx |-> q.idx, last |-> s.last,
                          out |-> <<Read(name, seq, NoneVal)>>]

\* next() on the generator: resume after the yield it is suspended at.
Resume(f, g, i, l) ==
    CASE g = "start" -> LoopBody(f, i, l)
      [] g = "y68" -> IF ~Truthy(l)
                      THEN [gen |-> "done", idx |-> i, last |-> l, out |-> <<>>]
                      ELSE LoopBody(f, i, l)
      [] g = "y78" -> LoopBody(f, i, l)
      [] g = "y82" -> [gen |-> "done", idx |-> i, last |-> l, out |-> <<>>]

(***************************************************************************)
(* The files a run can be given.                                           *)
(***************************************************************************)
Texts ==
    {<<>>} \cup
    UNION {{<<c>> \o r : c \in FirstChars, r \in [1..n -> RestChars]} :
              n \in 0..(MaxLineLen - 1)}

\* The lines of a file whose lines have the texts ts; nl: the file ends
\* with a line terminator.
MkLines(ts, nl) ==
    [k \in 1..Len(ts) |->
        IF k < Len(ts) \/ nl THEN Append(ts[k], NL) ELSE ts[k]]

(***************************************************************************)
(* for read in readfq(fp): every Read is collected in parsed.              *)
(***************************************************************************)
InitParser ==
    /\ idx = 0
    /\ last = NoneVal
    /\ gen = "start"
    /\ parsed = <<>>

\* The variables of the round trip and of the run, where they play no part.
IdleTrip ==
    /\ orig = <<>>
    /\ sio = <<>>

IdleRun ==
    /\ num_kmers = [A |-> 1, B |-> 1]
    /\ gzip_output = TRUE
    /\ scaling_factor = <<>>
    /\ read = <<>>
    /\ score = <<>>
    /\ counted = <<>>
    /\ binned = <<>>
    /\ outfile = <<>>
    /\ files = <<>>
    /\ stdout = <<>>

NextRead ==
    /\ pc = "parse"
    /\ gen # "done"
    /\ LET r == Resume(fp, gen, idx, last)
       IN  /\ gen' = r.gen
           /\ idx' = r.idx
           /\ last' = r.last
           /\ parsed' = parsed \o r.out
    /\ UNCHANGED <<fp, pc, tripVars, runVars>>

\* Every file of at most MaxLines lines of at most MaxLineLen characters;
\* its last line may lack the terminator (and is then not empty).
InitParse ==
    /\ \E n \in 0..MaxLines : \E ts \in [1..n -> Texts] : \E nl \in BOOLEAN :
          /\ ~nl => (n > 0 /\ ts[n] # <<>>)
          /\ fp = MkLines(ts, nl)
    /\ InitParser
    /\ pc = "parse"
    /\ IdleTrip
    /\ IdleRun

SpecParse == InitParse /\ [][NextRead]_vars

(***************************************************************************)
(* readfq on files that are concatenations of well-formed records.         *)
(***************************************************************************)
NameChars == {"A", " "}

HeaderTexts(marker) ==
    {<<marker>> \o r :
        r \in UNION {[1..n -> NameChars] : n \in 0..(MaxHeaderLen - 1)}}

\* A fasta record: a ">" header and any number of sequence lines.
FastaRecords ==
    {<<h>> \o body :
        h \in HeaderTexts(">"),
        body \in UNION {[1..n -> {<<"A">>, <<"A", "A">>}] : n \in 0..2}}

\* A fastq record: an "@" header, sequence lines, the separator and quality
\* lines as long in total as the sequence; a quality line may start with a
\* marker.
FastqRecords ==
    {<<h>> \o sq : h \in HeaderTexts("@"),
        sq \in {<<<<"A">>, <<"+">>, <<q>>>> : q \in {"A", "@", "+", ">"}}
           \cup {<<<<"A", "A">>, <<"+">>, <<"@", "A">>>>,
                  <<<<"A", "A">>, <<"+">>, <<"A">>, <<">">>>>,
                  <<<<"A">>, <<"A">>, <<"+">>, <<"+", "A">>>>}}

\* Lines that are no header, before the first record.
LeadingLines == {<<>>, <<<<>>>>, <<<<"A">>>>, <<<<"+">>>>}

RECURSIVE Flatten(_)
Flatten(ss) == IF ss = <<>> THEN <<>> ELSE Head(ss) \o Flatten(Tail(ss))

InitRecords ==
    /\ \E n \in 0..MaxRecords :
       \E rs \in [1..n -> FastaRecords \cup FastqRecords] :
       \E lead \in LeadingLines : \E nl \in BOOLEAN :
          LET ts == lead \o Flatten(rs)
          IN  /\ ~nl => (ts # <<>> /\ ts[Len(ts)] # <<>>)
              /\ fp = MkLines(ts, nl)
    /\ InitParser
    /\ pc = "parse"
    /\ IdleTrip
    /\ IdleRun

SpecRecords == InitRecords /\ [][NextRead]_vars

(***************************************************************************)
(* Read.__str__, Read.print, and reading back what was printed.            *)
(***************************************************************************)
\* Read.__str__: fastq when self.qual is true, fasta otherwise.
Str(r) ==
    IF Truthy(r.qual)
    THEN <<"@">> \o r.name \o <<NL>> \o r.seq \o <<NL, "+", NL>> \o r.qual.s
    ELSE <<">">> \o r.name \o <<NL>> \o r.seq

\* Read.print: print(self, file=file) writes str(self) and a newline.
PrintTo(text, r) == text \o Str(r) \o <<NL>>

RECURSIVE PrintAll(_)
PrintAll(rs) ==
    IF rs = <<>> THEN <<>>
    ELSE PrintTo(PrintAll(SubSeq(rs, 1, Len(rs) - 1)), rs[Len(rs)])

\* for line in fp, on a file of content text: the lines, each with its
\* terminator; cur is the line being collected.
RECURSIVE SplitLines(_, _)
SplitLines(text, cur) ==
    IF text = <<>> THEN (IF cur = <<>> THEN <<>> ELSE <<cur>>)
    ELSE IF Head(text) = NL
         THEN <<Append(cur, NL)>> \o SplitLines(Tail(text), <<>>)
         ELSE SplitLines(Tail(text), Append(cur, Head(text)))

\* The Reads of a round trip: a name without whitespace, a seq of
\* nucleotides, and no qual or a qual as long as the seq (a quality
\* character may be one of the markers).
Names == {<<>>, <<"r">>}
Nucleotides == {"A", "C"}
QualChars == {"!", "@"}
Seqs == UNION {[1..n -> Nucleotides] : n \in 0..MaxSeqLen}
TripReads ==
    {Read(n, s, NoneVal) : n \in Names, s \in Seqs} \cup
    UNION {{Read(n, s, Some(q)) : n \in Names, q \in [1..Len(s) -> QualChars]} :
              s \in Seqs}

InitTrip ==
    /\ \E n \in 1..MaxTrip : orig \in [1..n -> TripReads]
    /\ sio = <<>>
    /\ pc = "print"
    /\ fp = <<>>
    /\ InitParser
    /\ IdleRun

\* tests/test_seq.py: the Reads are printed to one StringIO in turn.
PrintRead ==
    /\ pc = "print"
    /\ \E k \in 1..Len(orig) :
          /\ sio = PrintAll(SubSeq(orig, 1, k - 1))
          /\ sio' = PrintTo(sio, orig[k])
          /\ pc' = IF k = Len(orig) THEN "written" ELSE "print"
    /\ UNCHANGED <<parserVars, orig, runVars>>

\* readfq is given the text printed.
Reopen ==
    /\ pc = "written"
    /\ fp' = SplitLines(sio, <<>>)
    /\ pc' = "parse"
    /\ UNCHANGED <<idx, last, gen, parsed, tripVars, runVars>>

NextTrip == PrintRead \/ Reopen \/ NextRead

SpecTrip == InitTrip /\ [][NextTrip]_vars

(***************************************************************************)
(* classify_by_kmers.  A float that is a quotient or product of small      *)
(* integers is the exact rational [num, den] in lowest terms.              *)
(***************************************************************************)
RECURSIVE GCD(_, _)
GCD(a, b) == IF b = 0 THEN a ELSE GCD(b, a % b)

\* 1.0 * n / d, d > 0
Quotient(n, d) == [num |-> n \div GCD(n, d), den |-> d \div GCD(n, d)]

\* count * factor
Times(count, x) == Quotient(count * x.num, x.den)

\* x > y
Greater(x, y) == x.num * y.den > y.num * x.den

Max(a, b) == IF a >= b THEN a ELSE b

\* calculate_scaling_factors with the two divisors exchanged.
ScalingFactorsExchanged(num_kmers_a, num_kmers_b) ==
    LET max_num_kmers == Max(num_kmers_a, num_kmers_b)
    IN  [A |-> Quotient(max_num_kmers, num_kmers_b),
         B |-> Quotient(max_num_kmers, num_kmers_a)]

\* calculate_scaling_factors, for cardinalities that are not zero.
calculate_scaling_factors(num_kmers_a, num_kmers_b) ==
    LET max_num_kmers == Max(num_kmers_a, num_kmers_b)
    IN  [A |-> Quotient(max_num_kmers, num_kmers_a),
         B |-> Quotient(max_num_kmers, num_kmers_b)]

\* Scores with the bin chosen on the raw counts.
ScoresUnscaled(hap_a_count, hap_b_count, factor) ==
    [a |-> Times(hap_a_count, factor.A),
     b |-> Times(hap_b_count, factor.B),
     bin |-> IF hap_a_count > hap_b_count THEN "A"
             ELSE IF hap_b_count > hap_a_count THEN "B"
             ELSE "U"]

\* main, lines 153-164: the scores and the bin of a read with these counts.
Scores(hap_a_count, hap_b_count, factor) ==
    LET hap_a_score == Times(hap_a_count, factor.A)
        hap_b_score == Times(hap_b_count, factor.B)
    IN  [a |-> hap_a_score,
         b |-> hap_b_score,
         bin |-> IF Greater(hap_a_score, hap_b_score) THEN "A"
                 ELSE IF Greater(hap_b_score, hap_a_score) THEN "B"
                 ELSE "U"]

\* StreamOf with the unclassified reads sent to the stream of haplotype A.
StreamOfNoElse(read_bin) == IF read_bin = "U" THEN "A" ELSE read_bin

\* The stream a read of this bin is printed to.
StreamOf(read_bin) == read_bin

\* The output prefixes (the defaults of parse_args) and the extension of
\* the reads file.
Prefix == [A |-> "hapA", B |-> "hapB", U |-> "unclassified"]
outfile_extension == ".fastq"
Streams == {"A", "B", "U"}

\* open_outfiles: the file each stream is opened on.
OutfileName(gz) ==
    IF ~gz
    THEN [A |-> <<Prefix.A, outfile_extension>>,
          B |-> <<Prefix.A, outfile_extension>>,
          U |-> <<Prefix.U, outfile_extension>>]
    ELSE [A |-> <<Prefix.A, outfile_extension, ".gz">>,
          B |-> <<Prefix.B, outfile_extension, ".gz">>,
          U |-> <<Prefix.U, outfile_extension, ".gz">>]

\* What a stream puts in its file for the text written to it: the text, or
\* for a gzip stream one compressed member holding it.
Encode(gz, text) == IF gz THEN <<[gzip |-> text]>> ELSE text

\* A stream flushes what was written to it from the start of its file, over
\* what the file holds.
WriteOver(old, text) == text \o SubSeq(old, Len(text) + 1, Len(old))

RECURSIVE FlushAll(_, _, _)
FlushAll(fs, out, order) ==
    IF order = <<>> THEN fs
    ELSE LET h == out[Head(order)]
         IN  FlushAll([fs EXCEPT
                         ![h.name] = WriteOver(@, Encode(h.gz, h.written))],
                      out, Tail(order))

Orders == {o \in [1..3 -> Streams] : \A h \in Streams : \E k \in 1..3 : o[k] = h}

\* The reads files of a run: well-formed records, fasta and fastq.
RunReads ==
    {Read(<<"a">>, <<"A">>, NoneVal), Read(<<"b">>, <<"C">>, Some(<<"!">>))}

Init ==
    /\ \E n \in 0..MaxReads : \E rs \in [1..n -> RunReads] :
          fp = SplitLines(PrintAll(rs), <<>>)
    /\ InitParser
    /\ pc = "open"
    /\ IdleTrip
    /\ num_kmers \in [{"A", "B"} -> 0..MaxKmers]
    /\ gzip_output \in BOOLEAN
    /\ scaling_factor = <<>>
    /\ read = <<>>
    /\ score = <<>>
    /\ counted = <<>>
    /\ binned = <<>>
    /\ outfile = <<>>
    /\ files = <<>>
    /\ stdout = <<>>

\* main, lines 135-141: open_outfiles creates (or empties) the files.
OpenOutfiles ==
    /\ pc = "open"
    /\ LET name == OutfileName(gzip_output)
       IN  /\ outfile' = [h \in Streams |->
                            [name |-> name[h], gz |-> gzip_output,
                             written |-> <<>>]]
           /\ files' = [n \in {name[h] : h \in Streams} |-> <<>>]
    /\ pc' = "scale"
    /\ UNCHANGED <<parserVars, tripVars, num_kmers, gzip_output,
                   scaling_factor, read, score, counted, binned, stdout>>

\* CalculateScalingFactors with a cardinality of zero given the factor 1.
CalculateScalingFactorsNoRaise ==
    /\ pc = "scale"
    /\ scaling_factor' =
          calculate_scaling_factors(Max(num_kmers.A, 1), Max(num_kmers.B, 1))
    /\ pc' = "loop"
    /\ UNCHANGED <<parserVars, tripVars, num_kmers, gzip_output, read, score,
                   counted, binned, outfile, files, stdout>>

\* main, lines 143-146: a cardinality of zero raises ZeroDivisionError.
CalculateScalingFactors ==
    /\ pc = "scale"
    /\ IF num_kmers.A = 0 \/ num_kmers.B = 0
       THEN /\ pc' = "failed"
            /\ UNCHANGED scaling_factor
       ELSE /\ scaling_factor' =
                 calculate_scaling_factors(num_kmers.A, num_kmers.B)
            /\ pc' = "loop"
    /\ UNCHANGED <<parserVars, tripVars, num_kmers, gzip_output, read, score,
                   counted, binned, outfile, files, stdout>>

\* main, line 148: for read in reads.
ForRead ==
    /\ pc = "loop"
    /\ gen # "done"
    /\ LET r == Resume(fp, gen, idx, last)
       IN  /\ gen' = r.gen
           /\ idx' = r.idx
           /\ last' = r.last
           /\ parsed' = parsed \o r.out
           /\ IF r.out = <<>>
              THEN pc' = "exit" /\ UNCHANGED read
              ELSE pc' = "body" /\ read' = r.out[1]
    /\ UNCHANGED <<fp, tripVars, num_kmers, gzip_output, scaling_factor,
                   score, counted, binned, outfile, files, stdout>>

\* main, lines 149-164: count, scale, choose the bin and print the read.
Classify ==
    /\ pc = "body"
    /\ \E hap_a_count, hap_b_count \in 0..MaxCount :
          LET s == Scores(hap_a_count, hap_b_count, scaling_factor)
              h == StreamOf(s.bin)
          IN  /\ score' = s
              /\ counted' = Append(counted, <<hap_a_count, hap_b_count>>)
              /\ binned' = Append(binned, s.bin)
              /\ outfile' = [outfile EXCEPT
                                ![h].written = PrintTo(@, read)]
    /\ pc' = "report"
    /\ UNCHANGED <<parserVars, tripVars, num_kmers, gzip_output,
                   scaling_factor, read, files, stdout>>

\* Report with the two scores exchanged.
ReportExchanged ==
    /\ pc = "report"
    /\ stdout' = Append(stdout, <<read.name, score.bin, score.b, score.a>>)
    /\ pc' = "loop"
    /\ UNCHANGED <<parserVars, tripVars, num_kmers, gzip_output,
                   scaling_factor, read, score, counted, binned, outfile,
                   files>>

\* main, line 166: the report line, its four fields.
Report ==
    /\ pc = "report"
    /\ stdout' = Append(stdout, <<read.name, score.bin, score.a, score.b>>)
    /\ pc' = "loop"
    /\ UNCHANGED <<parserVars, tripVars, num_kmers, gzip_output,
                   scaling_factor, read, score, counted, binned, outfile,
                   files>>

\* The end of main: the interpreter closes the streams, in some order, and
\* each flushes what it buffered (the output of a run of MaxReads reads is
\* smaller than a stream's buffer, so nothing was flushed before).
Exit ==
    /\ pc = "exit"
    /\ \E order \in Orders : files' = FlushAll(files, outfile, order)
    /\ pc' = "done"
    /\ UNCHANGED <<parserVars, tripVars, num_kmers, gzip_output,
                   scaling_factor, read, score, counted, binned, outfile,
                   stdout>>

Next ==
    \/ OpenOutfiles
    \/ CalculateScalingFactors
    \/ ForRead
    \/ Classify
    \/ Report
    \/ Exit

Spec == Init /\ [][Next]_vars

(***************************************************************************)
(* classify_by_alignment: main and classify_single.                        *)
(***************************************************************************)
\* aligner.align(read.seq): the match lengths of the hits, none when the
\* read does not align.
Alignments == SUBSET (1..MaxMlen)

\* max(..., key=lambda a: a.mlen).mlen of a hit list that is not empty.
MaxMlenOf(hits) == CHOOSE m \in hits : \A k \in hits : k <= m

\* A call of main, or a call of classify_single with a parser and three
\* streams already open.
InitAlign ==
    /\ \E n \in 0..MaxReads : \E rs \in [1..n -> RunReads] :
          fp = SplitLines(PrintAll(rs), <<>>)
    /\ InitParser
    /\ IdleTrip
    /\ num_kmers = [A |-> 1, B |-> 1]
    /\ gzip_output = FALSE
    /\ scaling_factor = <<>>
    /\ read = <<>>
    /\ score = <<>>
    /\ counted = <<>>
    /\ binned = <<>>
    /\ files = <<>>
    /\ stdout = <<>>
    /\ \/ pc = "main" /\ outfile = <<>>
       \/ /\ pc = "for"
          /\ outfile = [h \in Streams |->
                          [name |-> <<h>>, gz |-> FALSE, written |-> <<>>]]

\* main, line 70: seq.open_outfiles() is called without its five required
\* arguments, which raises TypeError.
AlignMain ==
    /\ pc = "main"
    /\ pc' = "TypeError"
    /\ UNCHANGED <<parserVars, tripVars, runVars>>

\* classify_single, line 98: for read in reads_to_classify.
AlignForRead ==
    /\ pc = "for"
    /\ gen # "done"
    /\ LET r == Resume(fp, gen, idx, last)
       IN  /\ gen' = r.gen
           /\ idx' = r.idx
           /\ last' = r.last
           /\ parsed' = parsed \o r.out
           /\ IF r.out = <<>>
              THEN pc' = "return" /\ UNCHANGED read
              ELSE pc' = "align" /\ read' = r.out[1]
    /\ UNCHANGED <<fp, tripVars, num_kmers, gzip_output, scaling_factor,
                   score, counted, binned, outfile, files, stdout>>

\* classify_single, lines 99-106: max() of an empty hit list raises
\* ValueError; otherwise the read is printed to the stream of the longer
\* best match.
ClassifySingle ==
    /\ pc = "align"
    /\ \E hits_a, hits_b \in Alignments :
          IF hits_a = {} \/ hits_b = {}
          THEN /\ pc' = "ValueError"
               /\ UNCHANGED <<counted, binned, outfile>>
          ELSE LET a == MaxMlenOf(hits_a)
                   b == MaxMlenOf(hits_b)
                   h == IF a > b THEN "A" ELSE IF a < b THEN "B" ELSE "U"
               IN  /\ counted' = Append(counted, <<hits_a, hits_b>>)
                   /\ binned' = Append(binned, h)
                   /\ outfile' = [outfile EXCEPT
                                     ![h].written = PrintTo(@, read)]
                   /\ pc' = "for"
    /\ UNCHANGED <<parserVars, tripVars, num_kmers, gzip_output,
                   scaling_factor, read, score, files, stdout>>

NextAlign ==
    \/ AlignMain
    \/ AlignForRead
    \/ ClassifySingle

SpecAlign == InitAlign /\ [][NextAlign]_vars

(***************************************************************************)
(* What the claims say of a file, read off its lines.                      *)
(***************************************************************************)
\* A line without its terminator, if it has one.
Strip(line) ==
    IF line # <<>> /\ line[Len(line)] = NL THEN DropLast(line) ELSE line

IsHeader(line) == line[1] \in {">", "@"}
IsMarker(line) == line[1] \in {">", "@", "+"}

\* The line number of the i-th header line of f.
NthHeader(f, i) ==
    CHOOSE k \in 1..Len(f) :
        /\ IsHeader(f[k])
        /\ Cardinality({j \in 1..k : IsHeader(f[j])}) = i

\* The stripped lines of f from line k up to the next marker line or the
\* end of f, concatenated.
RECURSIVE SeqLinesFrom(_, _)
SeqLinesFrom(f, k) ==
    IF k > Len(f) \/ IsMarker(f[k]) THEN <<>>
    ELSE Strip(f[k]) \o SeqLinesFrom(f, k + 1)

\* The stripped lines k..n of f, concatenated.
RECURSIVE LinesBetween(_, _, _)
LinesBetween(f, k, n) ==
    IF k > n THEN <<>> ELSE Strip(f[k]) \o LinesBetween(f, k + 1, n)

\* The first marker line after line 1, or Len(f) + 1.
RECURSIVE MarkerFrom(_, _)
MarkerFrom(f, k) ==
    IF k > Len(f) \/ IsMarker(f[k]) THEN k ELSE MarkerFrom(f, k + 1)

SepPos(f) == MarkerFrom(f, 2)

HeaderName(line) == PartitionHead(Tail(Strip(line)))

\* A file of fasta-shaped records: it starts with a header line and has no
\* separator line.
NoSeparatorFile(f) ==
    /\ f # <<>>
    /\ IsHeader(f[1])
    /\ \A k \in 1..Len(f) : f[k][1] # "+"

\* f is one well-formed fastq record: header, sequence lines, separator,
\* then quality lines of the sequence's total length L >= 1.
OneFastqRecord(f) ==
    /\ Len(f) >= 4
    /\ f[1][1] = "@"
    /\ SepPos(f) >= 3
    /\ SepPos(f) < Len(f)
    /\ f[SepPos(f)][1] = "+"
    /\ Len(SeqLinesFrom(f, 2)) >= 1
    /\ Len(LinesBetween(f, SepPos(f) + 1, Len(f))) = Len(SeqLinesFrom(f, 2))

\* f is one fastq record cut short: header, sequence lines, separator, and
\* then no quality line or quality lines shorter in total than the sequence.
TruncatedFastq(f) ==
    /\ Len(f) >= 2
    /\ IsHeader(f[1])
    /\ SepPos(f) <= Len(f)
    /\ f[SepPos(f)][1] = "+"
    /\ \/ SepPos(f) = Len(f)
       \/ Len(LinesBetween(f, SepPos(f) + 1, Len(f))) < Len(SeqLinesFrom(f, 2))

(***************************************************************************)
(* Claims on readfq.                                                       *)
(***************************************************************************)

\* C1: in a file of fasta-shaped records, the Read emitted for a record
\* whose header starts with ">" has as seq the concatenation of the
\* record's sequence lines with only their terminators removed, and no
\* qual; whether or not the last line of the file has a terminator.
C1_FastaSeq ==
    NoSeparatorFile(fp) =>
        \A i \in 1..Len(parsed) :
            fp[NthHeader(fp, i)][1] = ">" =>
                /\ parsed[i].seq = SeqLinesFrom(fp, NthHeader(fp, i) + 1)
                /\ parsed[i].qual = NoneVal

\* C2: a well-formed fastq record of sequence length L >= 1 gives exactly
\* one Read, whose qual is the concatenation of the quality lines and has
\* length L; no quality line starts another record; whether or not the
\* last line of the file has a terminator.
C2_FastqQual ==
    OneFastqRecord(fp) =>
        /\ Len(parsed) <= 1
        /\ gen = "done" => Len(parsed) = 1
        /\ \A i \in 1..Len(parsed) :
              /\ parsed[i].seq = SeqLinesFrom(fp, 2)
              /\ parsed[i].qual =
                    Some(LinesBetween(fp, SepPos(fp) + 1, Len(fp)))
              /\ Len(parsed[i].qual.s) = Len(parsed[i].seq)

\* C3: every emitted Read that has a qual has it of the length of its seq,
\* for every file, well-formed or not.
C3_QualLen ==
    \A i \in 1..Len(parsed) :
        ~parsed[i].qual.none => Len(parsed[i].qual.s) = Len(parsed[i].seq)

\* C4: when the file ends after a separator line and before the quality
\* lines reach the length of the sequence, exactly one Read is emitted,
\* for that header, with the full sequence and no qual, and nothing after.
C4_TruncatedFallback ==
    TruncatedFastq(fp) =>
        /\ Len(parsed) <= 1
        /\ gen = "done" => Len(parsed) = 1
        /\ \A i \in 1..Len(parsed) :
              parsed[i] = Read(HeaderName(fp[1]), SeqLinesFrom(fp, 2), NoneVal)

\* C4 witness: the file ended amid the quality lines of a record with a
\* non-empty sequence, and the Read was emitted at the fallback yield.
C4_Witness ==
    /\ TruncatedFastq(fp)
    /\ SepPos(fp) < Len(fp)
    /\ Len(LinesBetween(fp, SepPos(fp) + 1, Len(fp))) >= 1
    /\ gen = "y82"
    /\ Len(parsed) = 1
    /\ parsed[1].qual = NoneVal
    /\ parsed[1].seq # <<>>

\* C5: printing Reads (whose qual is None or as long as the seq) one after
\* another and parsing the text gives back the same Reads, equal in name,
\* seq and qual.
C5_RoundTrip ==
    (pc = "parse" /\ gen = "done") => parsed = orig

(***************************************************************************)
(* Claims on the k-mer classification run.                                 *)
(***************************************************************************)
\* The Reads among the first n parsed that were given bin b, in order.
RECURSIVE Binned(_, _)
Binned(b, n) ==
    IF n = 0 THEN <<>>
    ELSE Binned(b, n - 1) \o (IF binned[n] = b THEN <<parsed[n]>> ELSE <<>>)

MaxNumKmers == Max(num_kmers.A, num_kmers.B)

\* C6: the bin of every read is decided on the scaled scores
\* raw_count_a * max/size_a and raw_count_b * max/size_b: A iff the first
\* is greater, B iff the second is, U iff they are equal (both zero
\* included).
C6_BinOnScaledScores ==
    \A i \in 1..Len(binned) :
        LET a == counted[i][1] * MaxNumKmers * num_kmers.B
            b == counted[i][2] * MaxNumKmers * num_kmers.A
        IN  /\ binned[i] = "A" <=> a > b
            /\ binned[i] = "B" <=> b > a
            /\ binned[i] = "U" <=> a = b

\* C6 witness: with cardinalities 2 and 3 (factors 1.5 and 1.0, as for 4
\* and 6) a read with raw counts 2 and 2 was given scores 3 and 2 and bin
\* A, and a read with raw counts 0 and 0 was left unclassified.
C6_Witness ==
    /\ num_kmers = [A |-> 2, B |-> 3]
    /\ scaling_factor =
          [A |-> [num |-> 3, den |-> 2], B |-> [num |-> 1, den |-> 1]]
    /\ counted = <<<<2, 2>>, <<0, 0>>>>
    /\ binned = <<"A", "U">>
    /\ score.a = [num |-> 0, den |-> 1]
    /\ Len(stdout) >= 1
    /\ stdout[1][3] = [num |-> 3, den |-> 1]
    /\ stdout[1][4] = [num |-> 2, den |-> 1]

\* C7: for positive cardinalities, factor_a * size_a = factor_b * size_b =
\* max(size_a, size_b), both factors are positive and the smaller is 1.
C7_ScalingFactors ==
    pc \in {"loop", "body", "report", "exit", "done"} =>
        LET fa == scaling_factor.A
            fb == scaling_factor.B
        IN  /\ fa.num * num_kmers.A = MaxNumKmers * fa.den
            /\ fb.num * num_kmers.B = MaxNumKmers * fb.den
            /\ fa.num > 0 /\ fa.den > 0 /\ fb.num > 0 /\ fb.den > 0
            /\ fa.num >= fa.den /\ fb.num >= fb.den
            /\ fa.num = fa.den \/ fb.num = fb.den

\* C7 witness: factors computed for two different cardinalities, neither
\* dividing the other.
C7_Witness ==
    /\ pc = "loop"
    /\ num_kmers.A = 2
    /\ num_kmers.B = 3
    /\ scaling_factor.A = [num |-> 3, den |-> 2]

\* C8: every record the parser yielded is printed exactly once, to the
\* stream of its bin and to no other: each stream was written the records
\* of its bin, in order, and after the loop every parsed record has a bin.
C8_ExactlyOneStream ==
    pc \in {"scale", "loop", "body", "report", "exit", "done", "failed"} =>
        /\ \A h \in Streams :
              outfile[h].written = PrintAll(Binned(h, Len(binned)))
        /\ \A i \in 1..Len(binned) : binned[i] \in Streams
        /\ Len(binned) <= Len(parsed)
        /\ Len(parsed) <= Len(binned) + 1
        /\ pc \in {"exit", "done"} => Len(binned) = Len(parsed)

\* C8 witness: a finished run of two records printed to different streams.
C8_Witness ==
    /\ pc = "done"
    /\ Len(parsed) = 2
    /\ binned[1] = "U"
    /\ binned[2] = "B"
    /\ outfile["U"].written = PrintTo(<<>>, parsed[1])

\* C9: after a run, with or without gzip, the three streams are on three
\* different files named from the A, B and unclassified prefixes, and each
\* file holds exactly the records of its bin, in input order.
C9_ThreeFiles ==
    pc = "done" =>
        /\ \A h \in Streams : outfile[h].name[1] = Prefix[h]
        /\ \A g, h \in Streams : g # h => outfile[g].name # outfile[h].name
        /\ \A h \in Streams :
              files[outfile[h].name] =
                  Encode(gzip_output, PrintAll(Binned(h, Len(binned))))

\* C10: one report line per record, in the order of the records, with the
\* record's name, its bin and the two scaled scores; the line of a record
\* is printed before the next record is pulled from the parser.
C10_ReportPerRecord ==
    /\ Len(stdout) <= Len(parsed)
    /\ Len(parsed) <= Len(stdout) + 1
    /\ pc \in {"loop", "exit", "done"} => Len(stdout) = Len(parsed)
    /\ \A i \in 1..Len(stdout) :
          /\ stdout[i][1] = parsed[i].name
          /\ stdout[i][2] = binned[i]
          /\ stdout[i][3].num * num_kmers.A =
                counted[i][1] * MaxNumKmers * stdout[i][3].den
          /\ stdout[i][4].num * num_kmers.B =
                counted[i][2] * MaxNumKmers * stdout[i][4].den

\* C10 witness: two records of different names and different scores were
\* reported, and the run is over.
C10_Witness ==
    /\ pc = "done"
    /\ Len(stdout) = 2
    /\ stdout[1][1] # stdout[2][1]
    /\ stdout[1][3] # stdout[1][4]
    /\ stdout[2][2] = "U"

\* C11: when a k-mer set has cardinality zero the run fails in the
\* computation of the scaling factors, and it fails there only; no record
\* is pulled from the parser, classified, written to a stream or reported,
\* before the failure or after it.
C11_ZeroCardinalityFails ==
    /\ pc = "failed" => (num_kmers.A = 0 \/ num_kmers.B = 0)
    /\ (num_kmers.A = 0 \/ num_kmers.B = 0) =>
          /\ pc \in {"open", "scale", "failed"}
          /\ idx = 0
          /\ gen = "start"
          /\ parsed = <<>>
          /\ counted = <<>>
          /\ binned = <<>>
          /\ stdout = <<>>
          /\ scaling_factor = <<>>
          /\ pc # "open" => \A h \in Streams : outfile[h].written = <<>>

\* C11 witness: the run failed with only the second cardinality zero, on a
\* reads file that has records.
C11_Witness ==
    /\ pc = "failed"
    /\ num_kmers.A > 0
    /\ num_kmers.B = 0
    /\ fp # <<>>
    /\ outfile # <<>>
    /\ parsed = <<>>

(***************************************************************************)
(* A file as a concatenation of well-formed records.                       *)
(***************************************************************************)
\* The first line from line k on at which the stripped lines from line p
\* on reach the length n in total, or Len(f) + 1.
RECURSIVE QualEnd(_, _, _, _)
QualEnd(f, p, k, n) ==
    IF k > Len(f) \/ Len(LinesBetween(f, p, k)) >= n THEN k
    ELSE QualEnd(f, p, k + 1, n)

\* The records of f from line k on: ok when the lines from k to the end
\* are well-formed records one after another, and then hdrs, the line
\* numbers of their headers.
RECURSIVE RecordsFrom(_, _)
RecordsFrom(f, k) ==
    IF k > Len(f) THEN [ok |-> TRUE, hdrs |-> <<>>]
    ELSE IF f[k][1] = ">"
    THEN LET e == MarkerFrom(f, k + 1)
         IN  IF e <= Len(f) /\ ~IsHeader(f[e])
             THEN [ok |-> FALSE, hdrs |-> <<>>]
             ELSE LET rest == RecordsFrom(f, e)
                  IN  [ok |-> rest.ok, hdrs |-> <<k>> \o rest.hdrs]
    ELSE IF f[k][1] = "@"
    THEN LET p == MarkerFrom(f, k + 1)
             e == QualEnd(f, p + 1, p + 1, Len(LinesBetween(f, k + 1, p - 1)))
         IN  IF \/ p > Len(f)
                \/ p < k + 2
                \/ f[p][1] # "+"
                \/ e > Len(f)
                \/ Len(LinesBetween(f, p + 1, e)) #
                      Len(LinesBetween(f, k + 1, p - 1))
             THEN [ok |-> FALSE, hdrs |-> <<>>]
             ELSE LET rest == RecordsFrom(f, e + 1)
                  IN  [ok |-> rest.ok, hdrs |-> <<k>> \o rest.hdrs]
    ELSE [ok |-> FALSE, hdrs |-> <<>>]

\* The first header line from line k on, or Len(f) + 1.
RECURSIVE HeaderFrom(_, _)
HeaderFrom(f, k) ==
    IF k > Len(f) \/ IsHeader(f[k]) THEN k ELSE HeaderFrom(f, k + 1)

Records(f) == RecordsFrom(f, HeaderFrom(f, 1))

\* C12: on a concatenation of well-formed fasta and fastq records, after
\* any lines that are no header, readfq emits one Read per header line, in
\* order, named by the header's text from after the marker to the first
\* space; a header that ended the sequence of the record before it is the
\* buffered line and is not read again, and the reader is never past the
\* header of the next record.
C12_OneReadPerHeader ==
    Records(fp).ok =>
        LET hdrs == Records(fp).hdrs
            n == Len(parsed)
        IN  /\ n <= Len(hdrs)
            /\ gen = "done" => n = Len(hdrs)
            /\ \A i \in 1..n : parsed[i].name = HeaderName(fp[hdrs[i]])
            /\ n > 0 => idx >= hdrs[n]
            /\ n < Len(hdrs) => idx <= hdrs[n + 1]
            /\ (n > 0 /\ n < Len(hdrs) /\ idx = hdrs[n + 1]) =>
                  last = Some(Strip(fp[idx]))

\* The score of a read against an assembly: its best match length, zero
\* when it has no alignment.
AlignScore(hits) == IF hits = {} THEN 0 ELSE MaxMlenOf(hits)

AlignStream(hits) ==
    LET a == AlignScore(hits[1])
        b == AlignScore(hits[2])
    IN  IF a > b THEN "A" ELSE IF a < b THEN "B" ELSE "U"

\* The first n reads pulled whose hits send them to stream h, printed.
RECURSIVE AlignedTo(_, _)
AlignedTo(h, n) ==
    IF n = 0 THEN <<>>
    ELSE IF AlignStream(counted[n]) = h
         THEN PrintTo(AlignedTo(h, n - 1), parsed[n])
         ELSE AlignedTo(h, n - 1)

\* C13: classify_single does not fail, a read without an alignment
\* included; every read pulled from the parser is written to one stream,
\* A when its best match length on A is the greater, B when it is the
\* smaller, unclassified when the two are equal, no alignment scoring zero.
C13_AlignedReadBinned ==
    pc \in {"for", "align", "return", "ValueError"} =>
        /\ pc # "ValueError"
        /\ pc # "align" => Len(counted) = Len(parsed)
        /\ \A h \in Streams :
              outfile[h].written = AlignedTo(h, Len(counted))

====
